---- MODULE Spec2Model ----
(***************************************************************************)
(* Model of the ICE protocol core: the Executor epoch state machine        *)
(* (src/src/services/executor/index.ts) driven by the IceProtocol          *)
(* orchestrator loops (src/src/index.ts).                                  *)
(*                                                                         *)
(* Units.  Fee amounts are integers in milli-SOL (0.001 SOL), so the dust  *)
(* threshold 0.01 SOL is 10.  Allocated amounts are kept exact as integer  *)
(* numerators over 100 * AmountUnit(config) of the base configuration.     *)
(* Balances are in tenths of a SOL.  Time is in whole seconds, as produced *)
(* by Math.floor(Date.now() / 1000).                                       *)
(*                                                                         *)
(* Atomicity.  JavaScript runs each callback to completion; a loop can be  *)
(* interleaved with other callbacks only where it awaits an external       *)
(* promise: the balance query, the swap quote, the swap, the return of     *)
(* Executor.executeEpoch to its caller, and the sleep timer.  Each action  *)
(* below is one such run-to-completion segment.                            *)
(***************************************************************************)
EXTENDS Integers, Sequences, FiniteSets, TLC

(* ----------------------------- bounds --------------------------------- *)

\* number of loop invocations (start() / simulate() calls) that are tracked
MaxLoops ==
  2

\* cap on Executor.executorState.epochNumber (total executeEpoch calls)
MaxEpochs ==
  3

\* largest numEpochs argument passed to simulate()
MaxSimEpochs ==
  2

\* number of clock ticks explored after StartTime
MaxTicks ==
  2

(* ------------------------ program constants --------------------------- *)

\* config.executor.minIntervalSeconds, scaled down from the default 300
MinIntervalSeconds ==
  2

\* config.executor.maxConsecutiveFailures, scaled down from the default 5
MaxConsecutiveFailures ==
  2

\* config.executor.minBalanceToOperateSol = 0.5 SOL, in tenths of a SOL
MinBalanceToOperateSol ==
  5

\* the literal 0.01 of executeEpoch, in milli-SOL
DustThreshold ==
  10

\* config.executor.maxBudgetPerEpochSol in milli-SOL, scaled down from the
\* default 1.0 SOL to 0.015 SOL; the executor never reads it
MaxBudgetPerEpochSol ==
  15

\* config.maxPriceImpactBps
MaxPriceImpactBps ==
  1000

\* config.allocationConfig defaults
AllocationConfig ==
  [buybackPct |-> 70, lpPct |-> 20, burnPct |-> 5, coolingPct |-> 5]

\* allocation percentages accepted by validateConfig (they sum to 100): the
\* defaults, and a configuration with no buyback and no burn share
AllocationConfigs ==
  {AllocationConfig,
   [buybackPct |-> 0, lpPct |-> 95, burnPct |-> 0, coolingPct |-> 5]}

\* the clock value at construction; Date.now() is far beyond minInterval,
\* so the first epoch is never rate limited against lastExecutionTime = 0
StartTime ==
  MinIntervalSeconds

MaxTime ==
  StartTime + MaxTicks

Procs ==
  1..MaxLoops

\* amounts simulate() adds per iteration (Math.random() * 5 SOL), milli-SOL
FeeInflows ==
  {DustThreshold - 1, DustThreshold}

\* health scores handed to executeEpoch (IceHealthState.health, in
\* hundredths of a point); the executor passes the score on to the
\* allocation strategy and nowhere else
HealthLevels ==
  {25 * 100}

\* outcomes of connection.getBalance: a thrown error or a balance
BalanceResults ==
  {[ok |-> FALSE, value |-> 0],
   [ok |-> TRUE, value |-> MinBalanceToOperateSol - 1],
   [ok |-> TRUE, value |-> MinBalanceToOperateSol]}

\* outcomes of swapEngine.dryRun: a thrown error or a quoted priceImpactBps
QuoteResults ==
  {[ok |-> FALSE, priceImpactBps |-> 0],
   [ok |-> TRUE, priceImpactBps |-> MaxPriceImpactBps],
   [ok |-> TRUE, priceImpactBps |-> MaxPriceImpactBps + 1]}

\* the local `quote` of executeBuyback before dryRun has returned
NoQuote ==
  [ok |-> FALSE, priceImpactBps |-> 0]

\* outcomes of swapEngine.swap
SwapResults ==
  {"throw", "ok"}

VARIABLES
  mode,            \* config.executor.mode
  allocationMode,  \* config.allocationMode
  allocationConfig,\* config.allocationConfig
  now,             \* Math.floor(Date.now() / 1000)
  isRunning,       \* IceProtocol.isRunning
  exited,          \* process.exit(0) was called
  executorState,   \* Executor.executorState
  feeTracker,      \* the shared FeeTracker (totalFeesCollected)
  pc,              \* where each loop is suspended
  kind,            \* "start" or "simulate"
  numEpochs,       \* simulate(numEpochs)
  localEpoch,      \* the loop's local epochNumber
  epochNow,        \* local `now` of the executeEpoch in flight
  botBalance,      \* local botBalance of the executeEpoch
  iceHealth,       \* iceHealth.health passed to executeEpoch
  feesToProcess,   \* local feesToProcess of the executeEpoch in flight
  allocation,      \* local allocation of the epoch (NoAllocation for null)
  quote,           \* local quote of executeBuyback (NoQuote before it)
  outcome,         \* how the last executeEpoch of the loop returned
  exc,             \* exception raised in the loop's latest step
  stopped,         \* stop() was called while this start() loop was alive
  totalAdded,      \* history: sum of all amounts added to the accumulator
  totalSettled,    \* history: sum of totalFeesToAllocate of settled epochs
  healthConfig,    \* config.iceHealthWeights and config.iceHealthThreshold
  metricsInput,    \* the HealthMetricsInput handed to computeHealth
  iceHealthState,  \* the IceHealthState computeHealth returned
  iceHealthLater,  \* the later computeHealth calls and what they returned
  strategyInput,   \* the arguments handed to allocationStrategy.allocate
  strategyResult,  \* the EpochAllocations it returned, in call order
  sourceFees,      \* the fee inflow the configured FeeSource has to report
  snapshots        \* the objects IceProtocol.getState returned, in call order

\* the state of the executor and of the orchestrator loops
coreVars ==
  <<mode, allocationMode, allocationConfig, now, isRunning, exited,
    executorState, feeTracker, pc, kind, numEpochs, localEpoch, epochNow,
    botBalance, iceHealth, feesToProcess, allocation, quote, outcome, exc,
    stopped, totalAdded, totalSettled>>

\* the state of the health engine
healthVars ==
  <<healthConfig, metricsInput, iceHealthState, iceHealthLater>>

\* an allocation strategy called on its own
strategyVars ==
  <<strategyInput, strategyResult>>

\* the world the configured FeeSource observes
sourceVars ==
  <<sourceFees>>

vars ==
  <<coreVars, healthVars, strategyVars, sourceVars, snapshots>>

\* pc values at which an Executor.executeEpoch call is suspended
InFlight ==
  {"balance", "quote", "swap"}

\* outcomes with which executeEpoch returns null
NullOutcomes ==
  {"breaker", "rate", "lowbal", "dust", "error"}

\* the value standing for "no allocation" (null)
NoAllocation ==
  [totalFeesToAllocate |-> 0,
   allocations |-> [buyback |-> 0, lp |-> 0, burn |-> 0, cooling |-> 0],
   actions |-> <<>>]

(* ---------------------- allocation strategies ------------------------- *)
(* Amounts are exact: an amount is an integer numerator over              *)
(* 100 * AmountUnit(config), the denominator that feeAmount * pct / 100   *)
(* and the proportional scaling of the adaptive strategy need.  Health is *)
(* IceHealthState.health in hundredths of a point.                        *)

\* the amount NaN, which 0 / 0 produces; like NaN it fails the `> 0` tests
\* of executeActions
NaN ==
  0 - 1

\* 100 - buybackPct, the divisor of the adaptive scaling (1 when there is
\* nothing to divide by)
AmountUnit(config) ==
  IF config.buybackPct = 100 THEN 1 ELSE 100 - config.buybackPct

\* variant: the cooling share is dropped
FixedAllocateNoCooling(feeAmount, health, config) ==
  [totalFeesToAllocate |-> feeAmount,
   allocations |->
     [buyback |-> feeAmount * config.buybackPct * AmountUnit(config),
      lp      |-> feeAmount * config.lpPct * AmountUnit(config),
      burn    |-> feeAmount * config.burnPct * AmountUnit(config),
      cooling |-> 0],
   actions |-> <<>>]

\* variant: a critical health moves the burn share to the buyback
FixedAllocateHealthAware(feeAmount, health, config) ==
  LET moved == IF health < 30 * 100 THEN config.burnPct ELSE 0
  IN [totalFeesToAllocate |-> feeAmount,
      allocations |->
        [buyback |-> feeAmount * (config.buybackPct + moved)
                       * AmountUnit(config),
         lp      |-> feeAmount * config.lpPct * AmountUnit(config),
         burn    |-> feeAmount * (config.burnPct - moved)
                       * AmountUnit(config),
         cooling |-> feeAmount * config.coolingPct * AmountUnit(config)],
      actions |-> <<>>]

\* FixedAllocationStrategy.allocate: amounts = feeAmount * pct / 100
FixedAllocate(feeAmount, health, config) ==
  [totalFeesToAllocate |-> feeAmount,
   allocations |->
     [buyback |-> feeAmount * config.buybackPct * AmountUnit(config),
      lp      |-> feeAmount * config.lpPct * AmountUnit(config),
      burn    |-> feeAmount * config.burnPct * AmountUnit(config),
      cooling |-> feeAmount * config.coolingPct * AmountUnit(config)],
   actions |-> <<>>]

\* variant: the boundaries are inclusive (<= for <)
AdaptiveBuybackPctInclusive(health, baseConfig) ==
  IF health <= 30 * 100 THEN 85
  ELSE IF health <= 50 * 100 THEN 80
  ELSE IF health <= 70 * 100 THEN baseConfig.buybackPct
  ELSE 50

\* the step function of AdaptiveAllocationStrategy.allocate
AdaptiveBuybackPct(health, baseConfig) ==
  IF health < 30 * 100 THEN 85
  ELSE IF health < 50 * 100 THEN 80
  ELSE IF health < 70 * 100 THEN baseConfig.buybackPct
  ELSE 50

\* feeAmount * (pct / (100 - baseConfig.buybackPct) * remaining) / 100:
\* when buybackPct is 100 the other shares are 0 and 0 / 0 is NaN
ScaledAmount(feeAmount, pct, baseConfig, remaining) ==
  IF 100 - baseConfig.buybackPct = 0
    THEN NaN
    ELSE feeAmount * pct * remaining

\* variant: the shares are not scaled to the remaining percentage
AdaptiveAllocateUnscaled(feeAmount, health, baseConfig) ==
  LET buybackPct == AdaptiveBuybackPct(health, baseConfig)
  IN [totalFeesToAllocate |-> feeAmount,
      allocations |->
        [buyback |-> feeAmount * buybackPct * AmountUnit(baseConfig),
         lp      |-> feeAmount * baseConfig.lpPct * AmountUnit(baseConfig),
         burn    |-> feeAmount * baseConfig.burnPct * AmountUnit(baseConfig),
         cooling |-> feeAmount * baseConfig.coolingPct
                       * AmountUnit(baseConfig)],
      actions |-> <<>>]

\* AdaptiveAllocationStrategy.allocate: lpPct = lpPct / (100 - base) *
\* remaining and amount = feeAmount * pct / 100
AdaptiveAllocate(feeAmount, health, baseConfig) ==
  LET buybackPct == AdaptiveBuybackPct(health, baseConfig)
      remaining == 100 - buybackPct
  IN [totalFeesToAllocate |-> feeAmount,
      allocations |->
        [buyback |-> feeAmount * buybackPct * AmountUnit(baseConfig),
         lp      |-> ScaledAmount(feeAmount, baseConfig.lpPct, baseConfig,
                                  remaining),
         burn    |-> ScaledAmount(feeAmount, baseConfig.burnPct, baseConfig,
                                  remaining),
         cooling |-> ScaledAmount(feeAmount, baseConfig.coolingPct,
                                  baseConfig, remaining)],
      actions |-> <<>>]

\* this.allocationStrategy.allocate, chosen in the Executor constructor
Allocate(am, feeAmount, health, config) ==
  IF am = "adaptive"
    THEN AdaptiveAllocate(feeAmount, health, config)
    ELSE FixedAllocate(feeAmount, health, config)

(* --------------------------- actions taken ---------------------------- *)

\* executeBuyback, catch branch: quote rejected, quote threw or swap threw
BuybackFailed(solAmount, error) ==
  [type |-> "buyback", amountSol |-> solAmount, status |-> "failed",
   signature |-> "none", error |-> error]

\* executeBuyback, swap returned
BuybackExecuted(solAmount) ==
  [type |-> "buyback", amountSol |-> solAmount, status |-> "executed",
   signature |-> "sig", error |-> "none"]

\* Executor.executeAddLP: not implemented, recorded as failed
ExecuteAddLP(solAmount) ==
  [type |-> "add-lp", amountSol |-> solAmount, status |-> "failed",
   signature |-> "none", error |-> "Not yet implemented"]

\* variant: the burn is reported as done
ExecuteBurnExecuted(iceAmount) ==
  [type |-> "burn", amountSol |-> iceAmount, status |-> "executed",
   signature |-> "none", error |-> "none"]

\* Executor.executeBurn: not implemented, recorded as failed
ExecuteBurn(iceAmount) ==
  [type |-> "burn", amountSol |-> iceAmount, status |-> "failed",
   signature |-> "none", error |-> "Not yet implemented"]

\* variant: the status is never moved off "pending"
ExecuteCoolingPending(solAmount) ==
  [type |-> "cooling-event", amountSol |-> solAmount, status |-> "pending",
   signature |-> "none", error |-> "none"]

\* Executor.executeCooling: recorded as executed, no external call
ExecuteCooling(solAmount) ==
  [type |-> "cooling-event", amountSol |-> solAmount, status |-> "executed",
   signature |-> "none", error |-> "none"]

\* variant: the cooling event is processed before add-lp and burn
RestActionsCoolingFirst(a) ==
  (IF a.allocations.cooling > 0
     THEN <<ExecuteCooling(a.allocations.cooling)>> ELSE <<>>)
  \o (IF a.allocations.lp > 0 THEN <<ExecuteAddLP(a.allocations.lp)>>
                              ELSE <<>>)
  \o (IF a.allocations.burn > 0 THEN <<ExecuteBurn(a.allocations.burn)>>
                                ELSE <<>>)

\* executeActions after the buyback step: add-lp, burn, cooling in order
RestActions(a) ==
  (IF a.allocations.lp > 0 THEN <<ExecuteAddLP(a.allocations.lp)>>
                           ELSE <<>>)
  \o (IF a.allocations.burn > 0 THEN <<ExecuteBurn(a.allocations.burn)>>
                                ELSE <<>>)
  \o (IF a.allocations.cooling > 0
        THEN <<ExecuteCooling(a.allocations.cooling)>> ELSE <<>>)

(* ------------------------- executor helpers --------------------------- *)

\* Executor.checkBotBalance: a failed query is reported as balance 0
CheckBotBalance(r) ==
  IF r.ok THEN r.value ELSE 0

\* variant: the guard is off by one second
RateLimitedOffByOne(t, lastExecutionTime) ==
  t - lastExecutionTime < MinIntervalSeconds - 1

\* the rate-limit guard of executeEpoch
RateLimited(t, lastExecutionTime) ==
  t - lastExecutionTime < MinIntervalSeconds

\* variant: failures are counted but the breaker is never set
IncrementFailureCountNoTrip(s) ==
  [s EXCEPT !.consecutiveFailures = @ + 1]

\* variant: the breaker trips only past the maximum (> for >=)
IncrementFailureCountLate(s) ==
  LET n == s.consecutiveFailures + 1
  IN [s EXCEPT !.consecutiveFailures = n,
               !.circuitBreakerActive =
                  IF n > MaxConsecutiveFailures THEN TRUE ELSE @]

\* Executor.incrementFailureCount
IncrementFailureCount(s) ==
  LET n == s.consecutiveFailures + 1
  IN [s EXCEPT !.consecutiveFailures = n,
               !.circuitBreakerActive =
                  IF n >= MaxConsecutiveFailures THEN TRUE ELSE @]

\* variant: settlement forgets to reset the failure counter
SettledStateKeepsFailures(s, t) ==
  [s EXCEPT !.lastExecutionTime = t]

\* the "Reset state" assignments to executorState at the end of executeEpoch
SettledState(s, t) ==
  [s EXCEPT !.lastExecutionTime = t, !.consecutiveFailures = 0]

\* variant: the price-impact check is missing
QuoteAcceptedUnchecked(q) ==
  q.ok

\* the quote passes the price-impact check of executeBuyback
QuoteAccepted(q) ==
  q.ok /\ ~(q.priceImpactBps > MaxPriceImpactBps)

\* variant: the dust test is <= for <
BelowDustInclusive(fees) ==
  fees <= DustThreshold

\* the dust test of executeEpoch
BelowDust(fees) ==
  fees < DustThreshold

\* variant: actions are executed whatever the mode
LiveModeAlways(m) ==
  TRUE

\* the mode test of executeEpoch
LiveMode(m) ==
  m = "live"

(* --------------------------- health engine ---------------------------- *)
(* Units.  Weights are integers in hundredths (0.25 is 25).  Sub-scores   *)
(* and the reported health are integers in hundredths of a point, which   *)
(* is what Math.round(x * 100) / 100 leaves; the unrounded composite      *)
(* score, a sum of weight * metric, is in ten-thousandths of a point.     *)

\* `now` of the health check script, seconds
CurrentTimestamp ==
  1000000

\* config.iceHealthWeights and config.iceHealthThreshold defaults
DefaultHealthConfig ==
  [weights |-> [buybackFrequency |-> 25, buybackCoverage |-> 25,
                liquidityDepth |-> 25, volatilityPenalty |-> 15,
                timeDecay |-> 10],
   threshold |-> 50]

\* weight vectors that validateConfig accepts (they sum to 1.0)
HealthWeights ==
  {DefaultHealthConfig.weights,
   [buybackFrequency |-> 40, buybackCoverage |-> 30, liquidityDepth |-> 30,
    volatilityPenalty |-> 0, timeDecay |-> 0]}

\* thresholds that validateConfig accepts: 0 to 100 inclusive
HealthThresholds ==
  {0, DefaultHealthConfig.threshold, 100}

HealthConfigs ==
  [weights : HealthWeights, threshold : HealthThresholds]

\* HealthMetricsInput values: non-negative fields, a last-action time that
\* is 0, 5 days ago, an hour ago, now, or an hour ahead of the current time
MetricsInputs ==
  [buybackCountLast24h : {0, 2, 5},
   buybackVolumeSolLast24h : {0, 1, 10},
   recentSellPressureSol : {0, 3, 5, 20, 10000},
   currentLiquidity : {0, 1, 100},
   volatilityPercent24h : {0, 10, 50, 150},
   lastBuybackTimestampSeconds :
     {0, CurrentTimestamp - 5 * 86400, CurrentTimestamp - 3600,
      CurrentTimestamp, CurrentTimestamp + 3600},
   currentTimestampSeconds : {CurrentTimestamp}]

\* the inputs of the health check script, tests 1 and 3
ReferenceInput1 ==
  [buybackCountLast24h |-> 5, buybackVolumeSolLast24h |-> 10,
   recentSellPressureSol |-> 5, currentLiquidity |-> 100,
   volatilityPercent24h |-> 10,
   lastBuybackTimestampSeconds |-> CurrentTimestamp - 3600,
   currentTimestampSeconds |-> CurrentTimestamp]

ReferenceInput3 ==
  [buybackCountLast24h |-> 0, buybackVolumeSolLast24h |-> 0,
   recentSellPressureSol |-> 20, currentLiquidity |-> 1,
   volatilityPercent24h |-> 50,
   lastBuybackTimestampSeconds |-> CurrentTimestamp - 5 * 86400,
   currentTimestampSeconds |-> CurrentTimestamp]

\* no input has been handed to the engine
NoInput ==
  [buybackCountLast24h |-> 0, buybackVolumeSolLast24h |-> 0,
   recentSellPressureSol |-> 0, currentLiquidity |-> 0,
   volatilityPercent24h |-> 0, lastBuybackTimestampSeconds |-> 0,
   currentTimestampSeconds |-> 0]

\* computeHealth has not been called
NoHealthState ==
  [timestamp |-> 0, health |-> 0,
   metrics |-> [buybackFrequency |-> 0, buybackCoverage |-> 0,
                liquidityDepth |-> 0, volatilityPenalty |-> 0,
                timeDecay |-> 0],
   status |-> "none", lastActionTime |-> 0, epochNumber |-> 0]

\* Math.min and Math.max
Min(a, b) ==
  IF a < b THEN a ELSE b

Max(a, b) ==
  IF a > b THEN a ELSE b

\* Math.round(a / b) for b > 0: halves go towards +Infinity
RoundDiv(a, b) ==
  (2 * a + b) \div (2 * b)

\* Math.round(x * 100) for x = num / den: x rounded to 2 decimals, in
\* hundredths
Hundredths(num, den) ==
  RoundDiv(100 * num, den)

\* the sub-scores before rounding, each a fraction <<num, den>>:
\* Math.min(100, (count / 4) * 100)
BuybackFrequencyRaw(input) ==
  <<Min(100 * 4, input.buybackCountLast24h * 100), 4>>

\* Math.min(100, volume / sellPressure * 100), or 100 without sell pressure
BuybackCoverageRaw(input) ==
  IF input.recentSellPressureSol > 0
    THEN <<Min(100 * input.recentSellPressureSol,
               input.buybackVolumeSolLast24h * 100),
           input.recentSellPressureSol>>
    ELSE <<100, 1>>

\* Math.min(100, (liquidity / 50) * 100)
LiquidityDepthRaw(input) ==
  <<Min(100 * 50, input.currentLiquidity * 100), 50>>

\* Math.min(100, volatilityPercent24h)
VolatilityPenaltyRaw(input) ==
  <<Min(100, input.volatilityPercent24h), 1>>

\* Math.min(100, Math.max(0, (hoursSinceLastAction / 72) * 100));
\* (seconds / 3600 / 72) * 100 is seconds / (36 * 72)
TimeDecayRaw(input) ==
  LET secondsSinceLastAction ==
        input.currentTimestampSeconds - input.lastBuybackTimestampSeconds
  IN <<Min(100 * 36 * 72, Max(0, secondsSinceLastAction)), 36 * 72>>

\* the sub-scores as stored in IceHealthMetrics: rounded to 2 decimals
BuybackFrequencyScore(input) ==
  Hundredths(BuybackFrequencyRaw(input)[1], BuybackFrequencyRaw(input)[2])

BuybackCoverageScore(input) ==
  Hundredths(BuybackCoverageRaw(input)[1], BuybackCoverageRaw(input)[2])

LiquidityDepthScore(input) ==
  Hundredths(LiquidityDepthRaw(input)[1], LiquidityDepthRaw(input)[2])

VolatilityPenaltyScore(input) ==
  Hundredths(VolatilityPenaltyRaw(input)[1], VolatilityPenaltyRaw(input)[2])

\* variant: the lower clamp Math.max(0, ...) is missing
TimeDecayScoreNoFloor(input) ==
  LET secondsSinceLastAction ==
        input.currentTimestampSeconds - input.lastBuybackTimestampSeconds
  IN Hundredths(Min(100 * 36 * 72, secondsSinceLastAction), 36 * 72)

\* variant: the upper clamp Math.min(100, ...) is missing
TimeDecayScoreNoCap(input) ==
  LET secondsSinceLastAction ==
        input.currentTimestampSeconds - input.lastBuybackTimestampSeconds
  IN Hundredths(Max(0, secondsSinceLastAction), 36 * 72)

TimeDecayScore(input) ==
  Hundredths(TimeDecayRaw(input)[1], TimeDecayRaw(input)[2])

\* IceHealthEngine.computeMetrics
ComputeMetrics(input) ==
  [buybackFrequency |-> BuybackFrequencyScore(input),
   buybackCoverage |-> BuybackCoverageScore(input),
   liquidityDepth |-> LiquidityDepthScore(input),
   volatilityPenalty |-> VolatilityPenaltyScore(input),
   timeDecay |-> TimeDecayScore(input)]

\* variant: the time-decay term is left out of the sum
ComputeHealthScoreNoDecay(metrics, weights) ==
  LET score ==
        weights.buybackFrequency * metrics.buybackFrequency
        + weights.buybackCoverage * metrics.buybackCoverage
        + weights.liquidityDepth * metrics.liquidityDepth
        - weights.volatilityPenalty * metrics.volatilityPenalty
  IN Max(0, Min(100 * 10000, score))

\* IceHealthEngine.computeHealthScore, in ten-thousandths of a point
ComputeHealthScore(metrics, weights) ==
  LET score ==
        weights.buybackFrequency * metrics.buybackFrequency
        + weights.buybackCoverage * metrics.buybackCoverage
        + weights.liquidityDepth * metrics.liquidityDepth
        - weights.volatilityPenalty * metrics.volatilityPenalty
        - weights.timeDecay * metrics.timeDecay
  IN Max(0, Min(100 * 10000, score))

\* variant: the test for a positive score comes before the threshold test
ComputeStatusMeltingFirst(health, threshold) ==
  IF health > 0
    THEN "MELTING"
    ELSE IF health >= threshold * 10000 THEN "ALIVE" ELSE "DEAD"

\* IceHealthEngine.computeStatus: health unrounded, threshold in points
ComputeStatus(health, threshold) ==
  IF health >= threshold * 10000
    THEN "ALIVE"
    ELSE IF health > 0 THEN "MELTING" ELSE "DEAD"

\* variant: the time decay is measured from the wall clock, not from
\* input.currentTimestampSeconds
ComputeHealthFromClock(input, epochNumber, config, timestamp) ==
  LET metrics == ComputeMetrics([input EXCEPT
                                   !.currentTimestampSeconds = timestamp])
      health == ComputeHealthScore(metrics, config.weights)
      status == ComputeStatus(health, config.threshold)
  IN [timestamp |-> timestamp,
      health |-> RoundDiv(health, 100),
      metrics |-> metrics,
      status |-> status,
      lastActionTime |-> input.lastBuybackTimestampSeconds,
      epochNumber |-> epochNumber]

\* IceHealthEngine.computeHealth; timestamp is Math.floor(Date.now() / 1000)
ComputeHealth(input, epochNumber, config, timestamp) ==
  LET metrics == ComputeMetrics(input)
      health == ComputeHealthScore(metrics, config.weights)
      status == ComputeStatus(health, config.threshold)
  IN [timestamp |-> timestamp,
      health |-> RoundDiv(health, 100),
      metrics |-> metrics,
      status |-> status,
      lastActionTime |-> input.lastBuybackTimestampSeconds,
      epochNumber |-> epochNumber]

(* ----------------- allocation strategy inputs -------------------------- *)

\* fee amounts handed to allocate, in milli-SOL
StrategyFees ==
  {0, DustThreshold - 1, DustThreshold, 1000}

\* health scores on both sides of each boundary of the step function
StrategyHealths ==
  {0, 25 * 100, 30 * 100 - 1, 30 * 100, 50 * 100 - 1, 50 * 100,
   70 * 100 - 1, 70 * 100, 100 * 100}

\* base configurations that validateConfig accepts, buybackPct = 100
\* included
StrategyConfigs ==
  AllocationConfigs
  \cup {[buybackPct |-> 100, lpPct |-> 0, burnPct |-> 0, coolingPct |-> 0],
        [buybackPct |-> 40, lpPct |-> 30, burnPct |-> 20, coolingPct |-> 10]}

\* the strategy has not been called
NoStrategyInput ==
  [allocationMode |-> "none", feeAmount |-> 0, healths |-> <<0, 0>>,
   config |-> AllocationConfig]

\* the health engine is not called
HealthIdle ==
  /\ healthConfig = DefaultHealthConfig
  /\ metricsInput = NoInput
  /\ iceHealthState = NoHealthState
  /\ iceHealthLater = <<>>

\* no allocation strategy is called on its own
StrategyIdle ==
  /\ strategyInput = NoStrategyInput
  /\ strategyResult = <<>>

\* no fee inflow is waiting at the fee source
SourceIdle ==
  sourceFees = 0

\* the executor and the loops after construction
InitExecutor ==
  /\ now = StartTime
  /\ isRunning = FALSE
  /\ exited = FALSE
  /\ executorState = [lastExecutionTime |-> 0, consecutiveFailures |-> 0,
                      epochNumber |-> 0, circuitBreakerActive |-> FALSE]
  /\ feeTracker = [totalFeesCollected |-> 0]
  /\ pc = [p \in Procs |-> "unused"]
  /\ kind = [p \in Procs |-> "none"]
  /\ numEpochs = [p \in Procs |-> 0]
  /\ localEpoch = [p \in Procs |-> 0]
  /\ epochNow = [p \in Procs |-> 0]
  /\ botBalance = [p \in Procs |-> 0]
  /\ iceHealth = [p \in Procs |-> 0]
  /\ feesToProcess = [p \in Procs |-> 0]
  /\ allocation = [p \in Procs |-> NoAllocation]
  /\ quote = [p \in Procs |-> NoQuote]
  /\ outcome = [p \in Procs |-> "none"]
  /\ exc = [p \in Procs |-> "none"]
  /\ stopped = [p \in Procs |-> FALSE]
  /\ totalAdded = 0
  /\ totalSettled = 0

Init ==
  /\ mode \in {"dry-run", "live"}
  /\ allocationMode \in {"fixed", "adaptive"}
  /\ allocationConfig \in AllocationConfigs
  /\ InitExecutor
  /\ HealthIdle
  /\ StrategyIdle
  /\ SourceIdle
  /\ snapshots = <<>>

(* ------------------- Executor.executeEpoch, by segment ---------------- *)

\* amounts added to the accumulator before the epoch: simulate() only
Inflow(k) ==
  IF k = "simulate" THEN FeeInflows ELSE {0}

\* circuit breaker active: return null
BreakerAbort(p) ==
  /\ pc' = [pc EXCEPT ![p] = "report"]
  /\ outcome' = [outcome EXCEPT ![p] = "breaker"]
  /\ epochNow' = [epochNow EXCEPT ![p] = 0]

\* variant: the balance is queried before the rate-limit guard ends the epoch
RateLimitAbortAfterBalance(p) ==
  /\ pc' = [pc EXCEPT ![p] = "balance"]
  /\ outcome' = [outcome EXCEPT ![p] = "none"]
  /\ epochNow' = [epochNow EXCEPT ![p] = now]

\* now - lastExecutionTime < minIntervalSeconds: return null
RateLimitAbort(p) ==
  /\ pc' = [pc EXCEPT ![p] = "report"]
  /\ outcome' = [outcome EXCEPT ![p] = "rate"]
  /\ epochNow' = [epochNow EXCEPT ![p] = now]

\* both guards passed: await this.checkBotBalance()
AwaitBalance(p) ==
  /\ pc' = [pc EXCEPT ![p] = "balance"]
  /\ outcome' = [outcome EXCEPT ![p] = "none"]
  /\ epochNow' = [epochNow EXCEPT ![p] = now]

\* executeEpoch from its call to its first suspension or early return
ExecutorEnter(p, h, e) ==
  /\ executorState.epochNumber < MaxEpochs
  /\ executorState' = [executorState EXCEPT !.epochNumber = @ + 1]
  /\ iceHealth' = [iceHealth EXCEPT ![p] = h]
  /\ botBalance' = [botBalance EXCEPT ![p] = 0]
  /\ feesToProcess' = [feesToProcess EXCEPT ![p] = 0]
  /\ allocation' = [allocation EXCEPT ![p] = NoAllocation]
  /\ quote' = [quote EXCEPT ![p] = NoQuote]
  /\ exc' = [exc EXCEPT ![p] = e]
  /\ IF executorState.circuitBreakerActive
       THEN BreakerAbort(p)
       ELSE IF RateLimited(now, executorState.lastExecutionTime)
              THEN RateLimitAbort(p)
              ELSE AwaitBalance(p)

\* variant: a low balance is not counted as a failure
LowBalanceAbortUncounted(p, e) ==
  /\ pc' = [pc EXCEPT ![p] = "report"]
  /\ outcome' = [outcome EXCEPT ![p] = "lowbal"]
  /\ exc' = [exc EXCEPT ![p] = e]
  /\ UNCHANGED <<executorState, feeTracker, totalSettled, feesToProcess,
                 allocation>>

\* balance below minBalanceToOperateSol: count a failure, return null
LowBalanceAbort(p, e) ==
  /\ executorState' = IncrementFailureCount(executorState)
  /\ pc' = [pc EXCEPT ![p] = "report"]
  /\ outcome' = [outcome EXCEPT ![p] = "lowbal"]
  /\ exc' = [exc EXCEPT ![p] = e]
  /\ UNCHANGED <<feeTracker, totalSettled, feesToProcess, allocation>>

\* variant: an epoch without enough fees resets the failure counter
DustAbortResetsFailures(p, fees) ==
  /\ executorState' = [executorState EXCEPT !.consecutiveFailures = 0]
  /\ feesToProcess' = [feesToProcess EXCEPT ![p] = fees]
  /\ pc' = [pc EXCEPT ![p] = "report"]
  /\ outcome' = [outcome EXCEPT ![p] = "dust"]
  /\ exc' = [exc EXCEPT ![p] = "none"]
  /\ UNCHANGED <<feeTracker, totalSettled, allocation>>

\* feesToProcess < 0.01: return null
DustAbort(p, fees) ==
  /\ feesToProcess' = [feesToProcess EXCEPT ![p] = fees]
  /\ pc' = [pc EXCEPT ![p] = "report"]
  /\ outcome' = [outcome EXCEPT ![p] = "dust"]
  /\ exc' = [exc EXCEPT ![p] = "none"]
  /\ UNCHANGED <<executorState, feeTracker, totalSettled, allocation>>

\* variant: an epoch whose actions all failed is counted as a failure
SettleCountsFailedActions(p, a, e) ==
  IF a.actions # <<>>
     /\ \A i \in 1..Len(a.actions) : a.actions[i].status = "failed"
    THEN /\ executorState' = IncrementFailureCount(executorState)
         /\ allocation' = [allocation EXCEPT ![p] = NoAllocation]
         /\ pc' = [pc EXCEPT ![p] = "report"]
         /\ outcome' = [outcome EXCEPT ![p] = "error"]
         /\ exc' = [exc EXCEPT ![p] = e]
         /\ UNCHANGED <<feeTracker, totalSettled>>
    ELSE /\ executorState' = SettledState(executorState, epochNow[p])
         /\ feeTracker' = [feeTracker EXCEPT !.totalFeesCollected = 0]
         /\ totalSettled' = totalSettled + a.totalFeesToAllocate
         /\ allocation' = [allocation EXCEPT ![p] = a]
         /\ pc' = [pc EXCEPT ![p] = "report"]
         /\ outcome' = [outcome EXCEPT ![p] = "settled"]
         /\ exc' = [exc EXCEPT ![p] = e]

\* variant: the accumulator is not reset when the epoch settles
SettleKeepsFees(p, a, e) ==
  /\ executorState' = SettledState(executorState, epochNow[p])
  /\ feeTracker' = feeTracker
  /\ totalSettled' = totalSettled + a.totalFeesToAllocate
  /\ allocation' = [allocation EXCEPT ![p] = a]
  /\ pc' = [pc EXCEPT ![p] = "report"]
  /\ outcome' = [outcome EXCEPT ![p] = "settled"]
  /\ exc' = [exc EXCEPT ![p] = e]

\* "Reset state" and return allocation
Settle(p, a, e) ==
  /\ executorState' = SettledState(executorState, epochNow[p])
  /\ feeTracker' = [feeTracker EXCEPT !.totalFeesCollected = 0]
  /\ totalSettled' = totalSettled + a.totalFeesToAllocate
  /\ allocation' = [allocation EXCEPT ![p] = a]
  /\ pc' = [pc EXCEPT ![p] = "report"]
  /\ outcome' = [outcome EXCEPT ![p] = "settled"]
  /\ exc' = [exc EXCEPT ![p] = e]

\* executeActions -> executeBuyback: await this.swapEngine.dryRun(...)
AwaitQuote(p, a) ==
  /\ allocation' = [allocation EXCEPT ![p] = a]
  /\ pc' = [pc EXCEPT ![p] = "quote"]
  /\ exc' = [exc EXCEPT ![p] = "none"]
  /\ UNCHANGED <<executorState, feeTracker, totalSettled, outcome>>

\* the balance query returns; executeEpoch runs on to its next suspension
BalanceReturn(p) ==
  /\ ~exited
  /\ pc[p] = "balance"
  /\ \E r \in BalanceResults :
       LET e == IF r.ok THEN "none" ELSE "balance"
           fees == feeTracker.totalFeesCollected
           a == Allocate(allocationMode, fees, iceHealth[p],
                         allocationConfig)
       IN /\ botBalance' = [botBalance EXCEPT ![p] = CheckBotBalance(r)]
          /\ IF CheckBotBalance(r) < MinBalanceToOperateSol
            THEN LowBalanceAbort(p, e)
            ELSE IF BelowDust(fees)
                   THEN DustAbort(p, fees)
                   ELSE /\ feesToProcess' = [feesToProcess EXCEPT ![p] = fees]
                        /\ IF LiveMode(mode)
                             THEN IF a.allocations.buyback > 0
                                    THEN AwaitQuote(p, a)
                                    ELSE Settle(p,
                                           [a EXCEPT
                                              !.actions = RestActions(a)],
                                           "none")
                             ELSE Settle(p, a, "none")
  /\ UNCHANGED <<healthVars, strategyVars, sourceVars, snapshots, mode,
                 allocationMode, allocationConfig,
                 now, isRunning,
                 exited, kind, numEpochs, localEpoch, epochNow, iceHealth,
                 quote, stopped, totalAdded>>

\* the quote returns or throws
QuoteReturn(p) ==
  /\ ~exited
  /\ pc[p] = "quote"
  /\ \E q \in QuoteResults :
       LET a == allocation[p]
           error == IF q.ok THEN "Price impact too high" ELSE "quote failed"
       IN /\ quote' = [quote EXCEPT ![p] = IF q.ok THEN q ELSE NoQuote]
          /\ IF QuoteAccepted(q)
            THEN /\ pc' = [pc EXCEPT ![p] = "swap"]
                 /\ exc' = [exc EXCEPT ![p] = "none"]
                 /\ UNCHANGED <<executorState, feeTracker, totalSettled,
                                allocation, outcome>>
            ELSE Settle(p,
                   [a EXCEPT !.actions =
                      <<BuybackFailed(a.allocations.buyback, error)>>
                      \o RestActions(a)],
                   IF q.ok THEN "none" ELSE "quote")
  /\ UNCHANGED <<healthVars, strategyVars, sourceVars, snapshots, mode,
                 allocationMode, allocationConfig,
                 now, isRunning,
                 exited, kind, numEpochs, localEpoch, epochNow, botBalance,
                 iceHealth, feesToProcess, stopped, totalAdded>>

\* the swap returns or throws
SwapReturn(p) ==
  /\ ~exited
  /\ pc[p] = "swap"
  /\ \E r \in SwapResults :
       LET a == allocation[p]
           buybackAction == IF r = "ok"
                              THEN BuybackExecuted(a.allocations.buyback)
                              ELSE BuybackFailed(a.allocations.buyback,
                                                 "swap failed")
       IN Settle(p,
            [a EXCEPT !.actions = <<buybackAction>> \o RestActions(a)],
            IF r = "ok" THEN "none" ELSE "swap")
  /\ UNCHANGED <<healthVars, strategyVars, sourceVars, snapshots, mode,
                 allocationMode, allocationConfig,
                 now, isRunning,
                 exited, kind, numEpochs, localEpoch, epochNow, botBalance,
                 iceHealth, feesToProcess, quote, stopped, totalAdded>>

\* variant: the reset also forgets the time of the last execution
ResetStateClearsTime(s) ==
  [s EXCEPT !.circuitBreakerActive = FALSE, !.consecutiveFailures = 0,
            !.lastExecutionTime = 0]

\* variant: the reset clears the flag and keeps the failure count
ResetStateKeepsCount(s) ==
  [s EXCEPT !.circuitBreakerActive = FALSE]

\* Executor.resetCircuitBreaker
ResetState(s) ==
  [s EXCEPT !.circuitBreakerActive = FALSE, !.consecutiveFailures = 0]

ResetCircuitBreaker ==
  /\ ~exited
  /\ executorState' = ResetState(executorState)
  /\ UNCHANGED <<healthVars, strategyVars, sourceVars, snapshots, mode,
                 allocationMode, allocationConfig,
                 now, isRunning,
                 exited, feeTracker, pc, kind, numEpochs, localEpoch,
                 epochNow, botBalance, iceHealth, feesToProcess, allocation,
                 quote, outcome, exc, stopped, totalAdded, totalSettled>>

(* ------------------------ IceProtocol loops --------------------------- *)

\* one pass over the loop head and the body up to the first suspension:
\* k the kind of loop, i the epochs it has begun, n numEpochs, run the
\* value of isRunning at the test, e the exception that led here
Iterate(p, k, i, n, run, e) ==
  IF (k = "start" /\ ~run) \/ (k = "simulate" /\ ~(i < n))
    THEN /\ pc' = [pc EXCEPT ![p] = "done"]
         /\ exc' = [exc EXCEPT ![p] = e]
         /\ UNCHANGED <<localEpoch, feeTracker, totalAdded, executorState,
                        epochNow, botBalance, iceHealth, feesToProcess,
                        allocation, quote, outcome>>
    ELSE \E amt \in Inflow(k), h \in HealthLevels :
           /\ localEpoch' = [localEpoch EXCEPT ![p] = i + 1]
           /\ feeTracker' = [feeTracker EXCEPT
                               !.totalFeesCollected = @ + amt]
           /\ totalAdded' = totalAdded + amt
           /\ ExecutorEnter(p, h, e)

\* the next unused loop slot
NextSlot(p) ==
  /\ pc[p] = "unused"
  /\ \A q \in Procs : q < p => pc[q] # "unused"

\* IceProtocol.start()
Start(p) ==
  /\ ~exited
  /\ NextSlot(p)
  /\ ~isRunning
  /\ isRunning' = TRUE
  /\ kind' = [kind EXCEPT ![p] = "start"]
  /\ Iterate(p, "start", 0, 0, TRUE, "none")
  /\ UNCHANGED <<healthVars, strategyVars, sourceVars, snapshots, mode,
                 allocationMode, allocationConfig,
                 now, exited,
                 numEpochs, stopped, totalSettled>>

\* IceProtocol.simulate(numEpochs)
Simulate(p) ==
  /\ ~exited
  /\ NextSlot(p)
  /\ kind' = [kind EXCEPT ![p] = "simulate"]
  /\ \E n \in 1..MaxSimEpochs :
       /\ numEpochs' = [numEpochs EXCEPT ![p] = n]
       /\ Iterate(p, "simulate", 0, n, isRunning, "none")
  /\ UNCHANGED <<healthVars, strategyVars, sourceVars, snapshots, mode,
                 allocationMode, allocationConfig,
                 now, isRunning,
                 exited, stopped, totalSettled>>

\* the sleep timer fires and the loop goes round
Wake(p) ==
  /\ ~exited
  /\ pc[p] = "sleep"
  /\ Iterate(p, kind[p], localEpoch[p], numEpochs[p], isRunning, "none")
  /\ UNCHANGED <<healthVars, strategyVars, sourceVars, snapshots, mode,
                 allocationMode, allocationConfig,
                 now, isRunning,
                 exited, kind, numEpochs, stopped, totalSettled>>

\* the locals of IceProtocol.executeEpoch go out of scope
ClearLocals(p) ==
  /\ epochNow' = [epochNow EXCEPT ![p] = 0]
  /\ botBalance' = [botBalance EXCEPT ![p] = 0]
  /\ iceHealth' = [iceHealth EXCEPT ![p] = 0]
  /\ feesToProcess' = [feesToProcess EXCEPT ![p] = 0]
  /\ allocation' = [allocation EXCEPT ![p] = NoAllocation]
  /\ quote' = [quote EXCEPT ![p] = NoQuote]
  /\ outcome' = [outcome EXCEPT ![p] = "none"]

\* variant: no inner try/catch, the error reaches the outer catch of
\* start(), which clears isRunning and leaves the loop
EpochErrorFatal(p) ==
  /\ pc' = [pc EXCEPT ![p] = "crashed"]
  /\ isRunning' = FALSE

\* start(): the inner catch logs the error, then the loop sleeps
EpochErrorCaught(p) ==
  /\ pc' = [pc EXCEPT ![p] = "sleep"]
  /\ UNCHANGED isRunning

\* the EpochReport that IceProtocol.executeEpoch builds once the executor
\* has returned: feesDetected is read from the accumulator at that moment,
\* a null allocation is reported as four zero amounts and no actions
EpochReport(p) ==
  [epochNumber |-> localEpoch[p],
   timestamp |-> now,
   feesDetected |-> feeTracker.totalFeesCollected,
   allocations |-> allocation[p].allocations,
   actions |-> allocation[p].actions]

\* Executor.executeEpoch has returned; the report is built and written
Report(p) ==
  /\ ~exited
  /\ pc[p] = "report"
  /\ \E throws \in BOOLEAN :
       IF throws
         THEN IF kind[p] = "simulate"
                THEN /\ Iterate(p, "simulate", localEpoch[p], numEpochs[p],
                                isRunning, "report")
                     /\ UNCHANGED isRunning
                ELSE /\ EpochErrorCaught(p)
                     /\ exc' = [exc EXCEPT ![p] = "report"]
                     /\ ClearLocals(p)
                     /\ UNCHANGED <<localEpoch, feeTracker, totalAdded,
                                    executorState>>
         ELSE /\ pc' = [pc EXCEPT ![p] = "sleep"]
              /\ exc' = [exc EXCEPT ![p] = "none"]
              /\ ClearLocals(p)
              /\ UNCHANGED <<isRunning, localEpoch, feeTracker, totalAdded,
                             executorState>>
  /\ UNCHANGED <<healthVars, strategyVars, sourceVars, snapshots, mode,
                 allocationMode, allocationConfig,
                 now, exited, kind,
                 numEpochs, stopped, totalSettled>>

\* IceProtocol.stop()
Stop ==
  /\ ~exited
  /\ isRunning' = FALSE
  /\ stopped' = [p \in Procs |->
                   stopped[p] \/ (kind[p] = "start" /\ pc[p] # "done")]
  /\ UNCHANGED <<healthVars, strategyVars, sourceVars, snapshots, mode,
                 allocationMode, allocationConfig,
                 now, exited,
                 executorState, feeTracker, pc, kind, numEpochs, localEpoch,
                 epochNow, botBalance, iceHealth, feesToProcess, allocation,
                 quote, outcome, exc, totalAdded, totalSettled>>

\* the SIGINT handler of main(): protocol.stop(); process.exit(0)
Sigint ==
  /\ ~exited
  /\ isRunning' = FALSE
  /\ exited' = TRUE
  /\ stopped' = [p \in Procs |->
                   stopped[p] \/ (kind[p] = "start" /\ pc[p] # "done")]
  /\ UNCHANGED <<healthVars, strategyVars, sourceVars, snapshots, mode,
                 allocationMode, allocationConfig,
                 now, executorState,
                 feeTracker, pc, kind, numEpochs, localEpoch, epochNow,
                 botBalance, iceHealth, feesToProcess, allocation, quote,
                 outcome, exc, totalAdded, totalSettled>>

\* the wall clock advances
Tick ==
  /\ ~exited
  /\ now < MaxTime
  /\ now' = now + 1
  /\ UNCHANGED <<healthVars, strategyVars, sourceVars, snapshots, mode,
                 allocationMode, allocationConfig,
                 isRunning, exited,
                 executorState, feeTracker, pc, kind, numEpochs, localEpoch,
                 epochNow, botBalance, iceHealth, feesToProcess, allocation,
                 quote, outcome, exc, stopped, totalAdded, totalSettled>>

Next ==
  \/ \E p \in Procs : Start(p)
  \/ \E p \in Procs : Simulate(p)
  \/ \E p \in Procs : Wake(p)
  \/ \E p \in Procs : BalanceReturn(p)
  \/ \E p \in Procs : QuoteReturn(p)
  \/ \E p \in Procs : SwapReturn(p)
  \/ \E p \in Procs : Report(p)
  \/ ResetCircuitBreaker
  \/ Stop
  \/ Sigint
  \/ Tick

Spec ==
  Init /\ [][Next]_vars

\* at most one Executor.executeEpoch call is suspended
AtMostOneInFlight ==
  \A p, q \in Procs : (pc[p] \in InFlight /\ pc[q] \in InFlight) => p = q

\* the same program when its callers never overlap executeEpoch calls: no
\* call is made while another one is suspended
NextSeq ==
  \/ \E p \in Procs : Start(p) /\ AtMostOneInFlight'
  \/ \E p \in Procs : Simulate(p) /\ AtMostOneInFlight'
  \/ \E p \in Procs : Wake(p) /\ AtMostOneInFlight'
  \/ \E p \in Procs : BalanceReturn(p)
  \/ \E p \in Procs : QuoteReturn(p)
  \/ \E p \in Procs : SwapReturn(p)
  \/ \E p \in Procs : Report(p) /\ AtMostOneInFlight'
  \/ ResetCircuitBreaker
  \/ Stop
  \/ Sigint
  \/ Tick

SpecSeq ==
  Init /\ [][NextSeq]_vars

(* ---------------- the health engine called on its own ----------------- *)

\* the health check script: an engine built on a configuration, one input
InitHealth ==
  /\ mode = "dry-run"
  /\ allocationMode = "adaptive"
  /\ allocationConfig = AllocationConfig
  /\ InitExecutor
  /\ healthConfig \in HealthConfigs
  /\ metricsInput \in MetricsInputs
  /\ iceHealthState = NoHealthState
  /\ iceHealthLater = <<>>
  /\ StrategyIdle
  /\ SourceIdle
  /\ snapshots = <<>>

\* engine.computeHealth(input, 1)
ComputeHealthCall ==
  /\ iceHealthState = NoHealthState
  /\ iceHealthState' = ComputeHealth(metricsInput, 1, healthConfig,
                                     CurrentTimestamp)
  /\ UNCHANGED <<coreVars, healthConfig, metricsInput, iceHealthLater,
                 strategyVars, sourceVars, snapshots>>

\* the calls made after the first one
LaterCalls ==
  {iceHealthLater[i].call : i \in 1..Len(iceHealthLater)}

\* a later call on another input: engine.computeHealth(input3, 3)
ComputeHealthOther ==
  /\ iceHealthState # NoHealthState
  /\ iceHealthLater = <<>>
  /\ iceHealthLater' =
       <<[call |-> "other",
          state |-> ComputeHealth(ReferenceInput3, 3, healthConfig,
                                  CurrentTimestamp + 60)]>>
  /\ UNCHANGED <<coreVars, healthConfig, metricsInput, iceHealthState,
                 strategyVars, sourceVars, snapshots>>

\* the first call is made once more, later on the clock
ComputeHealthAgain ==
  /\ iceHealthState # NoHealthState
  /\ "again" \notin LaterCalls
  /\ iceHealthLater' =
       Append(iceHealthLater,
              [call |-> "again",
               state |-> ComputeHealth(metricsInput, 1, healthConfig,
                                       CurrentTimestamp + 120)])
  /\ UNCHANGED <<coreVars, healthConfig, metricsInput, iceHealthState,
                 strategyVars, sourceVars, snapshots>>

NextHealth ==
  \/ ComputeHealthCall
  \/ ComputeHealthOther
  \/ ComputeHealthAgain

SpecHealth ==
  InitHealth /\ [][NextHealth]_vars

(* --------------- an allocation strategy called on its own ------------- *)

\* a strategy, a fee amount, a configuration and two health states
InitStrategy ==
  /\ mode = "dry-run"
  /\ allocationMode = "adaptive"
  /\ allocationConfig = AllocationConfig
  /\ InitExecutor
  /\ HealthIdle
  /\ strategyInput \in [allocationMode : {"fixed", "adaptive"},
                        feeAmount : StrategyFees,
                        healths : StrategyHealths \X StrategyHealths,
                        config : StrategyConfigs]
  /\ strategyResult = <<>>
  /\ SourceIdle
  /\ snapshots = <<>>

\* allocationStrategy.allocate(feeAmount, iceHealth, config), called once
\* with each of the two health states
AllocateCall ==
  /\ Len(strategyResult) < 2
  /\ strategyResult' =
       Append(strategyResult,
              Allocate(strategyInput.allocationMode,
                       strategyInput.feeAmount,
                       strategyInput.healths[Len(strategyResult) + 1],
                       strategyInput.config))
  /\ UNCHANGED <<coreVars, healthVars, strategyInput, sourceVars,
                 snapshots>>

NextStrategy ==
  AllocateCall

SpecStrategy ==
  InitStrategy /\ [][NextStrategy]_vars

(* ------------------------ the state snapshot --------------------------- *)

\* variant: the internal object itself is returned
GetExecutorStateByReference(s) ==
  [value |-> s, shared |-> TRUE]

\* Executor.getState: { ...this.executorState }, a fresh object holding
\* copies of the four fields; shared tells whether writes to the object
\* reach the executor's own state
GetExecutorState(s) ==
  [value |-> s, shared |-> FALSE]

\* IceProtocol.getState; feeTracker.events is never appended to
ProtocolGetState ==
  [executor |-> GetExecutorState(executorState),
   feeTracker |-> [totalCollected |-> feeTracker.totalFeesCollected,
                   eventCount |-> 0],
   modified |-> FALSE]

\* what a caller writes into a returned object: it clears the failure
\* record it was shown
CallerWrite(v) ==
  [v EXCEPT !.circuitBreakerActive = FALSE, !.consecutiveFailures = 0,
            !.epochNumber = 0]

\* a call of IceProtocol.getState
GetState ==
  /\ Len(snapshots) < 2
  /\ snapshots' = Append(snapshots, ProtocolGetState)
  /\ UNCHANGED <<coreVars, healthVars, strategyVars, sourceVars>>

\* the caller modifies the first object it was given
ModifySnapshot ==
  /\ Len(snapshots) > 0
  /\ ~snapshots[1].modified
  /\ LET written == CallerWrite(snapshots[1].executor.value)
         shared == snapshots[1].executor.shared
     IN /\ snapshots' =
             [i \in 1..Len(snapshots) |->
                IF i = 1
                  THEN [snapshots[i] EXCEPT !.executor.value = written,
                                            !.modified = TRUE]
                  ELSE IF shared /\ snapshots[i].executor.shared
                         THEN [snapshots[i] EXCEPT
                                 !.executor.value = written]
                         ELSE snapshots[i]]
        /\ executorState' = IF shared THEN written ELSE executorState
  /\ UNCHANGED <<mode, allocationMode, allocationConfig, now, isRunning,
                 exited, feeTracker, pc, kind, numEpochs, localEpoch,
                 epochNow, botBalance, iceHealth, feesToProcess, allocation,
                 quote, outcome, exc, stopped, totalAdded, totalSettled,
                 healthVars, strategyVars, sourceVars>>

\* the dry-run script: one simulate() call, with state snapshots taken
InitSnapshot ==
  /\ mode = "dry-run"
  /\ allocationMode = "adaptive"
  /\ allocationConfig = AllocationConfig
  /\ InitExecutor
  /\ HealthIdle
  /\ StrategyIdle
  /\ SourceIdle
  /\ snapshots = <<>>

NextSnapshot ==
  \/ Simulate(1)
  \/ Wake(1)
  \/ BalanceReturn(1)
  \/ Report(1)
  \/ ResetCircuitBreaker
  \/ Tick
  \/ GetState
  \/ ModifySnapshot

SpecSnapshot ==
  InitSnapshot /\ [][NextSnapshot]_vars

(* ------------------- the main loop and the fee source ----------------- *)

\* fee inflows waiting at the configured FeeSource when start() is called:
\* none, below the dust threshold, the threshold, and a MockFeeSource event
\* (at least 0.1 SOL), in milli-SOL
SourceFees ==
  {0, DustThreshold - 1, DustThreshold, 100}

\* the protocol as main() runs it without SIMULATE_MODE, with a fee inflow
\* for the configured FeeSource to detect
InitSource ==
  /\ mode \in {"dry-run", "live"}
  /\ allocationMode \in {"fixed", "adaptive"}
  /\ allocationConfig = AllocationConfig
  /\ InitExecutor
  /\ HealthIdle
  /\ StrategyIdle
  /\ sourceFees \in SourceFees
  /\ snapshots = <<>>

\* start() loops only; no step of them calls FeeSource.detect()
NextSource ==
  \/ \E p \in Procs : Start(p)
  \/ \E p \in Procs : Wake(p)
  \/ \E p \in Procs : BalanceReturn(p)
  \/ \E p \in Procs : Report(p)
  \/ ResetCircuitBreaker
  \/ Stop
  \/ Tick

SpecSource ==
  InitSource /\ [][NextSource]_vars

(* ----------------------- one simulate() run -------------------------- *)

\* allocation percentages with no cooling share (they sum to 100)
NoCoolingConfig ==
  [buybackPct |-> 70, lpPct |-> 20, burnPct |-> 10, coolingPct |-> 0]

\* the protocol as main() runs it with SIMULATE_MODE=true
InitRun ==
  /\ mode \in {"dry-run", "live"}
  /\ allocationMode \in {"fixed", "adaptive"}
  /\ allocationConfig \in {AllocationConfig, NoCoolingConfig}
  /\ InitExecutor
  /\ HealthIdle
  /\ StrategyIdle
  /\ SourceIdle
  /\ snapshots = <<>>

\* one simulate() loop, the clock, and an operator resetting the breaker
NextRun ==
  \/ Simulate(1)
  \/ Wake(1)
  \/ BalanceReturn(1)
  \/ QuoteReturn(1)
  \/ SwapReturn(1)
  \/ Report(1)
  \/ ResetCircuitBreaker
  \/ Tick

SpecRun ==
  InitRun /\ [][NextRun]_vars

\* the same run when the event loop keeps going: the sleep timer fires,
\* every awaited call (balance query, quote, swap) returns or throws, and
\* the continuation that builds the report runs
SpecRunFair ==
  /\ SpecRun
  /\ WF_vars(Wake(1))
  /\ WF_vars(BalanceReturn(1))
  /\ WF_vars(QuoteReturn(1))
  /\ WF_vars(SwapReturn(1))
  /\ WF_vars(Report(1))

TypeOK ==
  /\ pc \in [Procs -> {"unused", "balance", "quote", "swap", "report",
                       "sleep", "done", "crashed"}]
  /\ outcome \in [Procs -> NullOutcomes \cup {"none", "settled"}]
  /\ executorState.consecutiveFailures \in Nat
  /\ feeTracker.totalFeesCollected \in Nat

(* ============================== claims ================================ *)

\* the loop whose step this is has just called Executor.executeEpoch
Entered(p) ==
  localEpoch'[p] # localEpoch[p]

\* the step leaves executorState alone, but for the epoch counter
OnlyEpochCounted ==
  executorState' =
    [executorState EXCEPT !.epochNumber = executorState'.epochNumber]

\* the step changes the accumulator by exactly the inflow added in it
AccumulatorKept ==
  feeTracker'.totalFeesCollected - feeTracker.totalFeesCollected
    = totalAdded' - totalAdded

(* C1: for non-overlapping executeEpoch calls, the breaker flag becomes   *)
(* true in exactly the step that increments consecutiveFailures to        *)
(* maxConsecutiveFailures, and while it is true the flag and the counter  *)
(* are changed only by resetCircuitBreaker, which clears both together.   *)
C1_BreakerTripsExactlyAtMax ==
  [][/\ (~executorState.circuitBreakerActive
         /\ executorState'.circuitBreakerActive)
        => /\ executorState'.consecutiveFailures
                = executorState.consecutiveFailures + 1
           /\ executorState'.consecutiveFailures = MaxConsecutiveFailures
     /\ (/\ executorState'.consecutiveFailures
              = executorState.consecutiveFailures + 1
         /\ executorState'.consecutiveFailures = MaxConsecutiveFailures)
        => executorState'.circuitBreakerActive
     /\ (/\ executorState.circuitBreakerActive
         /\ \/ ~executorState'.circuitBreakerActive
            \/ executorState'.consecutiveFailures
                 # executorState.consecutiveFailures)
        => ResetCircuitBreaker
     /\ ResetCircuitBreaker
        => /\ ~executorState'.circuitBreakerActive
           /\ executorState'.consecutiveFailures = 0
    ]_vars

\* the breaker has tripped on a low-balance failure
C1_Witness ==
  /\ executorState.circuitBreakerActive
  /\ executorState.consecutiveFailures = MaxConsecutiveFailures
  /\ \E p \in Procs : outcome[p] = "lowbal"

(* C2: for non-overlapping calls under a non-decreasing clock, an epoch   *)
(* past the rate-limit guard started at least minIntervalSeconds after    *)
(* lastExecutionTime, so a settling epoch started at least                *)
(* minIntervalSeconds after the previously settled one.                   *)
C2_RateLimit ==
  [][\A p \in Procs :
       /\ pc'[p] \in InFlight
          => epochNow'[p] - executorState'.lastExecutionTime
               >= MinIntervalSeconds
       /\ (pc[p] \in InFlight /\ outcome'[p] = "settled")
          => /\ epochNow[p] - executorState.lastExecutionTime
                  >= MinIntervalSeconds
             /\ executorState'.lastExecutionTime = epochNow[p]
             /\ now >= epochNow[p]
    ]_vars

\* a second epoch has settled after an earlier one
C2_Witness ==
  \E p \in Procs :
    /\ outcome[p] = "settled"
    /\ totalSettled > allocation[p].totalFeesToAllocate
    /\ executorState.lastExecutionTime >= StartTime + MinIntervalSeconds

(* C3: at most one epoch is in flight at any time, under every sequence   *)
(* of start(), stop() and simulate() calls.                               *)
C3_SingleEpochInFlight ==
  Cardinality({p \in Procs : pc[p] \in InFlight}) <= 1

(* C4: fee conservation: the sum of all amounts ever added to the         *)
(* accumulator equals the sum of totalFeesToAllocate over the settled     *)
(* epochs plus the current value of the accumulator.                      *)
C4_FeeConservation ==
  totalAdded = totalSettled + feeTracker.totalFeesCollected

(* C5: when executeEpoch returns an allocation, consecutiveFailures = 0,  *)
(* lastExecutionTime is the time read at the start of that epoch, the     *)
(* accumulator is 0 and totalFeesToAllocate is the whole accumulator      *)
(* value the epoch read.                                                  *)
C5_SettlementState ==
  [][\A p \in Procs :
       (pc[p] \in InFlight /\ outcome'[p] = "settled")
       => /\ executorState'.consecutiveFailures = 0
          /\ executorState'.lastExecutionTime = epochNow[p]
          /\ feeTracker'.totalFeesCollected = 0
          /\ allocation'[p].totalFeesToAllocate = feesToProcess'[p]
          /\ totalSettled' = totalSettled + feesToProcess'[p]
          /\ IF pc[p] = "balance"
               THEN feesToProcess'[p] = feeTracker.totalFeesCollected
               ELSE feesToProcess'[p] = feesToProcess[p]
    ]_vars

\* an epoch has settled after an earlier failure had been counted
C5_Witness ==
  \E p \in Procs :
    /\ outcome[p] = "settled"
    /\ pc[p] = "report"
    /\ allocation[p].totalFeesToAllocate >= DustThreshold
    /\ executorState.consecutiveFailures = 0
    /\ \E q \in Procs : q # p /\ outcome[q] = "lowbal"

(* C6: a silent abort of executeEpoch (breaker active, rate limited, or   *)
(* fees below the dust threshold) returns null and leaves                 *)
(* consecutiveFailures, circuitBreakerActive, lastExecutionTime and the   *)
(* accumulator unchanged.                                                 *)
C6_SilentAbortFrame ==
  [][\A p \in Procs :
       (\/ Entered(p) /\ outcome'[p] \in {"breaker", "rate"}
        \/ pc[p] = "balance" /\ outcome'[p] = "dust")
       => /\ OnlyEpochCounted
          /\ AccumulatorKept
          /\ pc'[p] = "report"
          /\ allocation'[p] = NoAllocation
    ]_vars

\* a dust abort has left a counted failure in place
C6_Witness ==
  \E p \in Procs :
    /\ outcome[p] = "dust"
    /\ pc[p] = "report"
    /\ executorState.consecutiveFailures > 0
    /\ feeTracker.totalFeesCollected > 0

(* C7: with the breaker inactive and the rate-limit guard passed, an      *)
(* epoch whose queried balance is below minBalanceToOperateSol adds       *)
(* exactly 1 to consecutiveFailures, returns null, allocates nothing,     *)
(* calls no swap-engine operation and leaves the accumulator and          *)
(* lastExecutionTime unchanged.                                           *)
C7_LowBalanceFailure ==
  [][\A p \in Procs :
       (pc[p] = "balance" /\ pc'[p] # "balance"
        /\ botBalance'[p] < MinBalanceToOperateSol)
       => /\ executorState'.consecutiveFailures
               = executorState.consecutiveFailures + 1
          /\ executorState'.lastExecutionTime
               = executorState.lastExecutionTime
          /\ executorState'.epochNumber = executorState.epochNumber
          /\ feeTracker' = feeTracker
          /\ totalSettled' = totalSettled
          /\ pc'[p] = "report"
          /\ outcome'[p] = "lowbal"
          /\ allocation'[p] = NoAllocation
    ]_vars

\* a low balance was counted although enough fees had accumulated
C7_Witness ==
  \E p \in Procs :
    /\ outcome[p] = "lowbal"
    /\ botBalance[p] = MinBalanceToOperateSol - 1
    /\ executorState.consecutiveFailures = 1
    /\ feeTracker.totalFeesCollected >= DustThreshold

(* C8: while the breaker is active and until resetCircuitBreaker is       *)
(* called, every executeEpoch returns null, queries no balance, calls no  *)
(* swap-engine operation and changes nothing in the executor state or     *)
(* the fee tracker except the epoch counter.                              *)
C8_BreakerSuppressesAllWork ==
  [][(executorState.circuitBreakerActive /\ ~ResetCircuitBreaker)
     => /\ OnlyEpochCounted
        /\ AccumulatorKept
        /\ \A p \in Procs :
             /\ pc'[p] \in InFlight => pc'[p] = pc[p]
             /\ outcome'[p] = "settled" => outcome[p] = "settled"
    ]_vars

(* C9: no exception escapes the core: executeEpoch completes with an      *)
(* allocation or null also when the balance query, the quote or the swap  *)
(* throws, and an exception in an epoch of the start() loop, report       *)
(* generation included, does not end the loop.                            *)
C9_NoExceptionEscapes ==
  \A p \in Procs :
    /\ pc[p] # "crashed"
    /\ pc[p] = "report" => outcome[p] \in NullOutcomes \cup {"settled"}
    /\ exc[p] = "balance"
       => /\ pc[p] = "report"
          /\ outcome[p] = "lowbal"
          /\ allocation[p] = NoAllocation
    /\ exc[p] \in {"quote", "swap"}
       => /\ pc[p] = "report"
          /\ outcome[p] = "settled"
          /\ allocation[p].actions[1].type = "buyback"
          /\ allocation[p].actions[1].status = "failed"
    /\ (exc[p] = "report" /\ kind[p] = "start") => pc[p] = "sleep"
    /\ (exc[p] = "report" /\ kind[p] = "simulate")
       => pc[p] \in {"balance", "report", "done"}

\* a start() loop sleeps towards its next epoch after a report error
C9_Witness ==
  \E p \in Procs :
    /\ kind[p] = "start"
    /\ exc[p] = "report"
    /\ pc[p] = "sleep"
    /\ isRunning

(* C10: a shutdown request is honoured only between epochs: the process   *)
(* does not end while an epoch is in flight, an epoch in flight is not    *)
(* cut short, and after stop() the loop starts no further epoch.          *)
C10_ShutdownBetweenEpochs ==
  [][/\ exited' => \A p \in Procs : pc'[p] \notin InFlight \cup {"report"}
     /\ \A p \in Procs :
          /\ pc[p] \in InFlight => pc'[p] \in InFlight \cup {"report"}
          /\ (stopped[p] /\ kind[p] = "start") => ~Entered(p)
    ]_vars

\* the action types in the priority order of executeActions
ActionOrder ==
  <<"buyback", "add-lp", "burn", "cooling-event">>

\* the amount allocation a gives to the category of action type t
AmountOf(a, t) ==
  CASE t = "buyback" -> a.allocations.buyback
    [] t = "add-lp" -> a.allocations.lp
    [] t = "burn" -> a.allocations.burn
    [] t = "cooling-event" -> a.allocations.cooling

\* the actions of type t in the action list of allocation a
ActionsOf(a, t) ==
  {i \in 1..Len(a.actions) : a.actions[i].type = t}

\* the step in which the live epoch of loop p returns its allocation
LiveReturn(p) ==
  /\ mode = "live"
  /\ pc[p] \in InFlight
  /\ pc'[p] = "report"
  /\ allocation'[p] # NoAllocation

(* C11: with the breaker inactive, the rate-limit guard passed and the    *)
(* balance sufficient, the epoch allocates if and only if the accumulator *)
(* is >= 0.01: 0.009 gives no allocation and leaves the accumulator       *)
(* untouched, exactly 0.01 gives an allocation of 0.01.                   *)
C11_DustBoundary ==
  [][\A p \in Procs :
       (pc[p] = "balance" /\ pc'[p] # "balance"
        /\ botBalance'[p] >= MinBalanceToOperateSol)
       => LET fees == feeTracker.totalFeesCollected
          IN /\ allocation'[p] # NoAllocation <=> fees >= DustThreshold
             /\ fees >= DustThreshold
                => allocation'[p].totalFeesToAllocate = fees
             /\ fees < DustThreshold
                => /\ feeTracker' = feeTracker
                   /\ outcome'[p] = "dust"
                   /\ pc'[p] = "report"
    ]_vars

\* one epoch stopped at 0.009 while another had allocated exactly 0.01
C11_Witness ==
  \E p, q \in Procs :
    /\ outcome[p] = "dust"
    /\ feesToProcess[p] = DustThreshold - 1
    /\ botBalance[p] >= MinBalanceToOperateSol
    /\ outcome[q] = "settled"
    /\ allocation[q].totalFeesToAllocate = DustThreshold

(* C12: in live mode the swap is called only after a quote of the same    *)
(* epoch reported priceImpactBps <= maxPriceImpactBps; when the quoted    *)
(* impact exceeds the ceiling no swap is called, the buyback action is    *)
(* failed with an error and no signature, and the other categories are    *)
(* still processed.                                                       *)
C12_SwapOnlyAfterAcceptedQuote ==
  [][\A p \in Procs :
       /\ pc'[p] = "swap"
          => /\ mode = "live"
             /\ pc[p] \in {"quote", "swap"}
             /\ quote'[p].ok
             /\ quote'[p].priceImpactBps <= MaxPriceImpactBps
       /\ (/\ pc[p] = "quote"
           /\ quote'[p].ok
           /\ quote'[p].priceImpactBps > MaxPriceImpactBps)
          => LET a == allocation'[p]
             IN /\ pc'[p] = "report"
                /\ outcome'[p] = "settled"
                /\ a.actions[1].type = "buyback"
                /\ a.actions[1].status = "failed"
                /\ a.actions[1].error # "none"
                /\ a.actions[1].signature = "none"
                /\ \A t \in {"add-lp", "burn", "cooling-event"} :
                     AmountOf(a, t) > 0 => ActionsOf(a, t) # {}
    ]_vars

\* a buyback was rejected on its quote and the other three were processed
C12_Witness ==
  \E p \in Procs :
    /\ outcome[p] = "settled"
    /\ quote[p].priceImpactBps = MaxPriceImpactBps + 1
    /\ allocation[p].actions[1].error = "Price impact too high"
    /\ Len(allocation[p].actions) = 4

(* C13: in live mode the returned action list holds exactly one action    *)
(* for each category with an amount > 0 and none for a zero amount, in    *)
(* the order buyback, add-lp, burn, cooling-event, each with a terminal   *)
(* status; no later action exists while the buyback is still pending.     *)
C13_ActionsInPriorityOrder ==
  \A p \in Procs :
    /\ (mode = "live" /\ outcome[p] = "settled")
       => LET a == allocation[p]
              NonZero(t) == AmountOf(a, t) > 0
              expected == SelectSeq(ActionOrder, NonZero)
          IN /\ Len(a.actions) = Len(expected)
             /\ \A i \in 1..Len(expected) :
                  /\ a.actions[i].type = expected[i]
                  /\ a.actions[i].amountSol = AmountOf(a, expected[i])
                  /\ a.actions[i].status \in {"executed", "failed"}
    /\ pc[p] \in {"quote", "swap"} => allocation[p].actions = <<>>

\* a live epoch returned buyback, add-lp and cooling, with no burn share
C13_Witness ==
  \E p \in Procs :
    /\ mode = "live"
    /\ outcome[p] = "settled"
    /\ allocation[p].allocations.burn = 0
    /\ Len(allocation[p].actions) = 3
    /\ allocation[p].actions[1].type = "buyback"
    /\ allocation[p].actions[3].type = "cooling-event"

C15_NotImplementedRecorded ==
  [][\A p \in Procs :
       LiveReturn(p)
       => LET a == allocation'[p]
          IN /\ \A t \in {"add-lp", "burn"} :
                  AmountOf(a, t) > 0
                  => /\ Cardinality(ActionsOf(a, t)) = 1
                     /\ \A i \in ActionsOf(a, t) :
                          /\ a.actions[i].status = "failed"
                          /\ a.actions[i].error = "Not yet implemented"
             /\ outcome'[p] = "settled"
             /\ executorState'.consecutiveFailures = 0
             /\ executorState'.circuitBreakerActive
                  = executorState.circuitBreakerActive
    ]_vars

\* the buyback was executed, add-lp and burn were recorded as failed
C15_Witness ==
  \E p \in Procs :
    /\ outcome[p] = "settled"
    /\ Len(allocation[p].actions) = 4
    /\ allocation[p].actions[1].status = "executed"
    /\ allocation[p].actions[2].error = "Not yet implemented"
    /\ allocation[p].actions[3].error = "Not yet implemented"
    /\ executorState.consecutiveFailures = 0

(* C16: in live mode, whenever the cooling amount is > 0 one              *)
(* cooling-event action is recorded as executed with no error, in the     *)
(* step that ends the epoch: no swap-engine or balance call is made for   *)
(* it.                                                                    *)
C16_CoolingRecorded ==
  [][\A p \in Procs :
       (LiveReturn(p) /\ allocation'[p].allocations.cooling > 0)
       => LET a == allocation'[p]
              n == Len(a.actions)
          IN /\ n > 0
             /\ ActionsOf(a, "cooling-event") = {n}
             /\ a.actions[n].status = "executed"
             /\ a.actions[n].error = "none"
             /\ a.actions[n].amountSol = a.allocations.cooling
             /\ a.allocations.buyback = 0
                => (pc[p] = "balance" /\ quote'[p] = NoQuote)
    ]_vars

\* an epoch without buyback recorded its cooling event with no quote made
C16_Witness ==
  \E p \in Procs :
    /\ mode = "live"
    /\ outcome[p] = "settled"
    /\ quote[p] = NoQuote
    /\ Len(allocation[p].actions) = 2
    /\ allocation[p].actions[1].type = "add-lp"
    /\ allocation[p].actions[2].type = "cooling-event"
    /\ allocation[p].actions[2].status = "executed"

\* computeHealth has returned
HealthComputed ==
  iceHealthState.status # "none"

\* a score or sub-score within [0, 100], in hundredths
InRange(x) ==
  0 <= x /\ x <= 100 * 100

(* C17: for every weight vector summing to 1.0 and every input with       *)
(* non-negative fields and arbitrary timestamps (a last-action time of 0  *)
(* or later than the current time included), each of the five sub-scores  *)
(* and the composite health returned by computeHealth lie in [0, 100].    *)
C17_HealthWithinBounds ==
  HealthComputed
  => /\ InRange(iceHealthState.metrics.buybackFrequency)
     /\ InRange(iceHealthState.metrics.buybackCoverage)
     /\ InRange(iceHealthState.metrics.liquidityDepth)
     /\ InRange(iceHealthState.metrics.volatilityPenalty)
     /\ InRange(iceHealthState.metrics.timeDecay)
     /\ InRange(iceHealthState.health)

\* a last action later than the current time, and every raw score beyond 100
C17_Witness ==
  /\ HealthComputed
  /\ metricsInput.lastBuybackTimestampSeconds
       > metricsInput.currentTimestampSeconds
  /\ iceHealthState.metrics.timeDecay = 0
  /\ metricsInput.buybackCountLast24h > 4
  /\ metricsInput.currentLiquidity > 50
  /\ metricsInput.volatilityPercent24h > 100
  /\ iceHealthState.metrics.volatilityPenalty = 100 * 100

(* C18: for every composite score and every threshold from 0 to 100,      *)
(* computeHealth gives status ALIVE if score >= threshold, MELTING if     *)
(* 0 < score < threshold, and DEAD if score <= 0.                         *)
C18_StatusRules ==
  HealthComputed
  => LET score == ComputeHealthScore(iceHealthState.metrics,
                                     healthConfig.weights)
         threshold == healthConfig.threshold * 10000
     IN /\ score >= threshold => iceHealthState.status = "ALIVE"
        /\ (0 < score /\ score < threshold)
           => iceHealthState.status = "MELTING"
        /\ score <= 0 => iceHealthState.status = "DEAD"

\* computeHealth was called on reference vector 1
C19_Case ==
  /\ HealthComputed
  /\ metricsInput = ReferenceInput1
  /\ healthConfig = DefaultHealthConfig

C20_ReferenceVector3 ==
  (/\ HealthComputed
   /\ metricsInput = ReferenceInput3
   /\ healthConfig = DefaultHealthConfig)
  => /\ iceHealthState.metrics.timeDecay = 100 * 100
     /\ iceHealthState.health = 0
     /\ iceHealthState.status = "DEAD"

\* reference vector 3 was computed: five days without an action
C20_Witness ==
  /\ HealthComputed
  /\ metricsInput = ReferenceInput3
  /\ healthConfig = DefaultHealthConfig
  /\ iceHealthState.lastActionTime = CurrentTimestamp - 5 * 86400
  /\ iceHealthState.metrics.liquidityDepth = 200

\* the health state handed to the i-th call of the strategy
HealthOfCall(i) ==
  strategyInput.healths[i]

\* the four amounts of an allocation as percentages of feeAmount: the
\* amount is feeAmount * pct / 100 for each of the four
HasSplit(r, feeAmount, config, bb, lp, burn, cooling) ==
  /\ r.allocations.buyback = feeAmount * bb * AmountUnit(config)
  /\ r.allocations.lp = feeAmount * lp * AmountUnit(config)
  /\ r.allocations.burn = feeAmount * burn * AmountUnit(config)
  /\ r.allocations.cooling = feeAmount * cooling * AmountUnit(config)

(* C21: the adaptive strategy takes 85 as buyback percentage for          *)
(* health < 30, 80 for 30 <= health < 50, the base buybackPct for         *)
(* 50 <= health < 70, and 50 for health >= 70.                            *)
C21_AdaptiveStepFunction ==
  strategyInput.allocationMode = "adaptive"
  => \A i \in 1..Len(strategyResult) :
       LET h == HealthOfCall(i)
           pct == IF h < 3000 THEN 85
                  ELSE IF h < 5000 THEN 80
                  ELSE IF h < 7000 THEN strategyInput.config.buybackPct
                  ELSE 50
       IN strategyResult[i].allocations.buyback
            = strategyInput.feeAmount * pct
                * AmountUnit(strategyInput.config)

\* health 29.99 and health 30 were allocated differently
C21_Witness ==
  /\ strategyInput.allocationMode = "adaptive"
  /\ strategyInput.healths = <<2999, 3000>>
  /\ strategyInput.feeAmount = 1000
  /\ Len(strategyResult) = 2
  /\ strategyResult[1].allocations.buyback
       > strategyResult[2].allocations.buyback

C23_NoDivisionByZero ==
  (/\ strategyInput.allocationMode = "adaptive"
   /\ strategyInput.config.buybackPct = 100)
  => \A i \in 1..Len(strategyResult) :
       LET a == strategyResult[i].allocations
       IN /\ a.lp = 0
          /\ a.burn = 0
          /\ a.cooling = 0
          /\ a.buyback # NaN

(* C24: the fixed strategy does not depend on health: two calls with the  *)
(* same feeAmount and config and any two health states return identical   *)
(* allocations.                                                           *)
C24_FixedIgnoresHealth ==
  (strategyInput.allocationMode = "fixed" /\ Len(strategyResult) = 2)
  => strategyResult[1] = strategyResult[2]

\* the fixed strategy was called with a critical and with a high health
C24_Witness ==
  /\ strategyInput.allocationMode = "fixed"
  /\ strategyInput.healths = <<2500, 7000>>
  /\ strategyInput.config = AllocationConfig
  /\ strategyInput.feeAmount = 1000
  /\ Len(strategyResult) = 2
  /\ strategyResult[2].allocations.burn > 0

(* C25: for both strategies, every feeAmount >= 0, every health and every *)
(* base config of four non-negative percentages summing to 100 with       *)
(* buybackPct < 100, the four amounts are non-negative and sum to         *)
(* totalFeesToAllocate = feeAmount, and the actions list is empty.        *)
C25_AmountsSumToTotal ==
  strategyInput.config.buybackPct < 100
  => \A i \in 1..Len(strategyResult) :
       LET r == strategyResult[i]
           a == r.allocations
       IN /\ a.buyback >= 0 /\ a.lp >= 0 /\ a.burn >= 0 /\ a.cooling >= 0
          /\ r.totalFeesToAllocate = strategyInput.feeAmount
          /\ a.buyback + a.lp + a.burn + a.cooling
               = r.totalFeesToAllocate * 100
                   * AmountUnit(strategyInput.config)
          /\ r.actions = <<>>

\* both calls returned, on a base config that the adaptive strategy rescales
C25_Witness ==
  /\ Len(strategyResult) = 2
  /\ strategyInput.allocationMode = "adaptive"
  /\ strategyInput.config.buybackPct = 40
  /\ strategyInput.healths = <<7000, 0>>
  /\ strategyInput.feeAmount = DustThreshold - 1
  /\ strategyResult[1].allocations.cooling > 0

\* the step changes neither the executor state nor the fee tracker
InternalStateKept ==
  /\ executorState' = executorState
  /\ feeTracker' = feeTracker

(* C26: getState is read-only and idempotent: a call changes no executor  *)
(* or fee-tracker state and returns the current values, a second call     *)
(* with no epoch or reset in between returns an equal value, and writing  *)
(* to a returned object does not change the executor's internal state.    *)
C26_SnapshotReadOnly ==
  [][/\ Len(snapshots') > Len(snapshots)
        => LET new == snapshots'[Len(snapshots')]
           IN /\ InternalStateKept
              /\ new.executor.value = executorState
              /\ new.feeTracker.totalCollected
                   = feeTracker.totalFeesCollected
              /\ (/\ Len(snapshots) = 1
                  /\ ~snapshots[1].modified
                  /\ snapshots[1].executor.value = executorState
                  /\ snapshots[1].feeTracker.totalCollected
                       = feeTracker.totalFeesCollected)
                 => /\ new.executor.value = snapshots[1].executor.value
                    /\ new.feeTracker = snapshots[1].feeTracker
     /\ (Len(snapshots') = Len(snapshots) /\ snapshots' # snapshots)
        => /\ InternalStateKept
           /\ \A i \in 2..Len(snapshots) : snapshots'[i] = snapshots[i]
    ]_vars

\* a caller cleared the failure record in its copy while the breaker is on
C26_Witness ==
  /\ Len(snapshots) = 2
  /\ snapshots[1].modified
  /\ ~snapshots[1].executor.value.circuitBreakerActive
  /\ snapshots[2].executor.value = executorState
  /\ executorState.circuitBreakerActive
  /\ executorState.epochNumber = 2

(* C27: computeHealth is deterministic in its arguments: a second call    *)
(* with the same input, epoch number and configuration returns the same   *)
(* health, metrics, status, lastActionTime and epochNumber, whatever was  *)
(* called in between and whenever it is called.                           *)
C27_ComputeHealthDeterministic ==
  \A i \in 1..Len(iceHealthLater) :
    iceHealthLater[i].call = "again"
    => LET again == iceHealthLater[i].state
       IN /\ again.health = iceHealthState.health
          /\ again.metrics = iceHealthState.metrics
          /\ again.status = iceHealthState.status
          /\ again.lastActionTime = iceHealthState.lastActionTime
          /\ again.epochNumber = iceHealthState.epochNumber

\* the call was repeated two minutes later, after a call on another input
C27_Witness ==
  /\ Len(iceHealthLater) = 2
  /\ iceHealthLater[1].call = "other"
  /\ iceHealthLater[2].call = "again"
  /\ iceHealthLater[2].state.timestamp > iceHealthState.timestamp
  /\ iceHealthLater[1].state.status # iceHealthState.status
  /\ iceHealthState.metrics.timeDecay = 139

\* greatest common divisor
RECURSIVE GCD(_, _)
GCD(a, b) ==
  IF b = 0 THEN a ELSE GCD(b, a % b)

\* a fraction <<num, den>> in lowest terms
Reduced(x) ==
  LET g == GCD(x[1], x[2])
  IN IF g = 0 THEN x ELSE <<x[1] \div g, x[2] \div g>>

\* the weighted sum of the unrounded sub-scores, a fraction in hundredths
\* of a point (the weights are in hundredths)
UnroundedComposite ==
  LET w == healthConfig.weights
      f == Reduced(BuybackFrequencyRaw(metricsInput))
      c == Reduced(BuybackCoverageRaw(metricsInput))
      l == Reduced(LiquidityDepthRaw(metricsInput))
      v == Reduced(VolatilityPenaltyRaw(metricsInput))
      d == Reduced(TimeDecayRaw(metricsInput))
      den == f[2] * c[2] * l[2] * v[2] * d[2]
  IN <<w.buybackFrequency * f[1] * (den \div f[2])
       + w.buybackCoverage * c[1] * (den \div c[2])
       + w.liquidityDepth * l[1] * (den \div l[2])
       - w.volatilityPenalty * v[1] * (den \div v[2])
       - w.timeDecay * d[1] * (den \div d[2]),
       den>>

(* C28: rounding to 2 decimals is applied only to the reported values:    *)
(* the composite score is the weighted sum of the unrounded sub-scores,   *)
(* and the clamp to [0,100] and the threshold comparison are made on that *)
(* unrounded composite.                                                   *)
C28_RoundingOnlyForReport ==
  HealthComputed
  => LET score == UnroundedComposite
         num == Max(0, Min(100 * 100 * score[2], score[1]))
         status == IF num >= healthConfig.threshold * 100 * score[2]
                     THEN "ALIVE"
                     ELSE IF num > 0 THEN "MELTING" ELSE "DEAD"
     IN /\ iceHealthState.health = RoundDiv(num, score[2])
        /\ iceHealthState.status = status

(* C29: with the default base config 70/20/5/5 the adaptive strategy      *)
(* gives the splits of the README table: health < 30 gives 85/10/3/2,     *)
(* 30 to 50 gives 80/12/5/3, 50 to 70 gives 70/20/5/5, 70 and above gives *)
(* 50/30/12/8.                                                            *)
C29_ReadmeTable ==
  (/\ strategyInput.allocationMode = "adaptive"
   /\ strategyInput.config = AllocationConfig)
  => \A i \in 1..Len(strategyResult) :
       LET h == HealthOfCall(i)
           r == strategyResult[i]
           f == strategyInput.feeAmount
           c == strategyInput.config
       IN IF h < 3000 THEN HasSplit(r, f, c, 85, 10, 3, 2)
          ELSE IF h < 5000 THEN HasSplit(r, f, c, 80, 12, 5, 3)
          ELSE IF h < 7000 THEN HasSplit(r, f, c, 70, 20, 5, 5)
          ELSE HasSplit(r, f, c, 50, 30, 12, 8)

(* C30: the per-epoch budget limit is enforced: every epoch that returns  *)
(* an allocation has totalFeesToAllocate <= maxBudgetPerEpochSol,         *)
(* whatever has accumulated in the fee tracker.                           *)
C30_BudgetLimit ==
  \A p \in Procs :
    outcome[p] = "settled"
    => allocation[p].totalFeesToAllocate <= MaxBudgetPerEpochSol

(* C31: in the main loop started by start(), the fee events of the        *)
(* configured FeeSource are added to the accumulator before the executor  *)
(* reads it: an epoch of a start() loop that reads the accumulator reads  *)
(* at least the inflow the FeeSource had to report, so an inflow of at    *)
(* least 0.01 is not dropped as dust.                                     *)
C31_SourceFeesReachExecutor ==
  \A p \in Procs :
    (kind[p] = "start" /\ outcome[p] \in {"dust", "settled"})
    => /\ feesToProcess[p] >= sourceFees
       /\ (sourceFees >= DustThreshold => outcome[p] = "settled")

(* C32: the guards of executeEpoch are evaluated in the order breaker,    *)
(* rate limit, balance, dust, and the first failing guard ends the epoch: *)
(* an epoch stopped by the breaker or the rate limit queries no balance   *)
(* and counts no failure, and an epoch with a low balance is counted as a *)
(* failure even when the accumulated fees are below the dust threshold.   *)
C32_GuardOrder ==
  [][\A p \in Procs :
       LET limited == now - executorState.lastExecutionTime
                        < MinIntervalSeconds
           low == botBalance'[p] < MinBalanceToOperateSol
           dust == feeTracker.totalFeesCollected < DustThreshold
       IN /\ Entered(p)
             => IF executorState.circuitBreakerActive
                  THEN /\ outcome'[p] = "breaker"
                       /\ pc'[p] = "report"
                       /\ botBalance'[p] = 0
                       /\ OnlyEpochCounted
                  ELSE IF limited
                         THEN /\ outcome'[p] = "rate"
                              /\ pc'[p] = "report"
                              /\ botBalance'[p] = 0
                              /\ OnlyEpochCounted
                         ELSE pc'[p] = "balance"
          /\ (pc[p] = "balance" /\ pc'[p] # "balance")
             => IF low
                  THEN /\ outcome'[p] = "lowbal"
                       /\ executorState'.consecutiveFailures
                            = executorState.consecutiveFailures + 1
                  ELSE IF dust
                         THEN /\ outcome'[p] = "dust"
                              /\ executorState' = executorState
                         ELSE outcome'[p] \in {"none", "settled"}
    ]_vars

\* a low balance was counted while the accumulator was below the dust
\* threshold, and a later epoch was stopped by the rate limit unqueried
C32_Witness ==
  \E p, q \in Procs :
    /\ outcome[p] = "lowbal"
    /\ feeTracker.totalFeesCollected < DustThreshold
    /\ executorState.consecutiveFailures = 1
    /\ outcome[q] = "rate"
    /\ botBalance[q] = 0

\* every action the epoch created ended failed
AllFailed(a) ==
  /\ a.actions # <<>>
  /\ \A i \in 1..Len(a.actions) : a.actions[i].status = "failed"

(* C33: action-level failures never count toward the circuit breaker: a   *)
(* live epoch in which every created action ends failed (buyback rejected *)
(* or swap error, add-lp and burn not implemented) still returns the      *)
(* allocation, sets consecutiveFailures to 0, updates lastExecutionTime   *)
(* and zeroes the accumulator.                                            *)
C33_ActionFailuresNotCounted ==
  [][\A p \in Procs :
       (/\ allocationConfig.coolingPct = 0
        /\ \/ pc[p] = "quote" /\ pc'[p] = "report"
           \/ pc[p] = "swap" /\ exc'[p] = "swap")
       => /\ AllFailed(allocation'[p])
          /\ outcome'[p] = "settled"
          /\ allocation'[p].totalFeesToAllocate = feesToProcess[p]
          /\ allocation'[p].allocations = allocation[p].allocations
          /\ executorState'.consecutiveFailures = 0
          /\ executorState'.circuitBreakerActive
               = executorState.circuitBreakerActive
          /\ executorState'.lastExecutionTime = epochNow[p]
          /\ feeTracker'.totalFeesCollected = 0
    ]_vars

\* the swap threw, add-lp and burn are not implemented, the epoch settled
\* and cleared a failure counted before it
C33_Witness ==
  /\ outcome[1] = "settled"
  /\ exc[1] = "swap"
  /\ AllFailed(allocation[1])
  /\ Len(allocation[1].actions) = 3
  /\ executorState.consecutiveFailures = 0
  /\ executorState.epochNumber = 2
  /\ executorState.lastExecutionTime > 0
  /\ feeTracker.totalFeesCollected = 0

(* C34: a balance query that throws is treated as a balance of 0: the     *)
(* epoch is counted as one low-balance failure (consecutiveFailures + 1,  *)
(* null returned, nothing allocated), so maxConsecutiveFailures           *)
(* consecutive epochs with a failing query trip the circuit breaker.      *)
C34_FailedQueryCounted ==
  [][\A p \in Procs :
       (pc[p] = "balance" /\ exc'[p] = "balance")
       => /\ botBalance'[p] = 0
          /\ outcome'[p] = "lowbal"
          /\ pc'[p] = "report"
          /\ allocation'[p] = NoAllocation
          /\ feeTracker' = feeTracker
          /\ executorState'.consecutiveFailures
               = executorState.consecutiveFailures + 1
          /\ executorState'.circuitBreakerActive
               = (\/ executorState.circuitBreakerActive
                  \/ executorState.consecutiveFailures + 1
                       >= MaxConsecutiveFailures)
          /\ executorState'.lastExecutionTime
               = executorState.lastExecutionTime
    ]_vars

\* the second of two epochs whose balance query threw has tripped the
\* breaker, with enough fees waiting
C34_Witness ==
  /\ outcome[1] = "lowbal"
  /\ exc[1] = "balance"
  /\ botBalance[1] = 0
  /\ executorState.epochNumber = MaxConsecutiveFailures
  /\ executorState.consecutiveFailures = MaxConsecutiveFailures
  /\ executorState.circuitBreakerActive
  /\ feeTracker.totalFeesCollected >= DustThreshold

(* C35: for non-overlapping epochs, every reachable state has             *)
(* 0 <= consecutiveFailures <= maxConsecutiveFailures, and                *)
(* circuitBreakerActive holds exactly when consecutiveFailures equals     *)
(* maxConsecutiveFailures.                                                *)
C35_BreakerMatchesCount ==
  /\ executorState.consecutiveFailures >= 0
  /\ executorState.consecutiveFailures <= MaxConsecutiveFailures
  /\ executorState.circuitBreakerActive
       <=> (executorState.consecutiveFailures = MaxConsecutiveFailures)

\* the breaker is active at the maximum count after an epoch that did not
\* count toward it
C35_Witness ==
  /\ executorState.circuitBreakerActive
  /\ executorState.consecutiveFailures = MaxConsecutiveFailures
  /\ executorState.epochNumber = MaxConsecutiveFailures + 1
  /\ \E p \in Procs : outcome[p] = "lowbal"

\* the breaker is inactive, the accumulator holds at least 0.01, and an
\* executeEpoch call is suspended past the guards or is still to be made
\* by the loop at a time the rate limit lets through
ReadyToSettle ==
  /\ ~executorState.circuitBreakerActive
  /\ feeTracker.totalFeesCollected >= DustThreshold
  /\ \/ pc[1] \in InFlight
     \/ /\ pc[1] = "sleep"
        /\ localEpoch[1] < numEpochs[1]
        /\ executorState.epochNumber < MaxEpochs
        /\ now - executorState.lastExecutionTime >= MinIntervalSeconds

ResetStep ==
  /\ pc' = pc
  /\ localEpoch' = localEpoch
  /\ snapshots' = snapshots
  /\ executorState' # executorState

(* C37: resetCircuitBreaker changes only circuitBreakerActive and         *)
(* consecutiveFailures: lastExecutionTime, epochNumber and the            *)
(* accumulator are unchanged, so the first epoch after a reset is still   *)
(* subject to the rate-limit, balance and dust guards.                    *)
C37_ResetFrame ==
  [][/\ ResetStep
        => /\ ~executorState'.circuitBreakerActive
           /\ executorState'.consecutiveFailures = 0
           /\ executorState'.lastExecutionTime
                = executorState.lastExecutionTime
           /\ executorState'.epochNumber = executorState.epochNumber
           /\ feeTracker' = feeTracker
           /\ now' = now
     /\ (Entered(1) /\ ~executorState.circuitBreakerActive)
        => IF now - executorState.lastExecutionTime < MinIntervalSeconds
             THEN outcome'[1] = "rate" /\ pc'[1] = "report"
             ELSE pc'[1] = "balance"
     /\ (pc[1] = "balance" /\ pc'[1] # "balance")
        => IF botBalance'[1] < MinBalanceToOperateSol
             THEN outcome'[1] = "lowbal"
             ELSE (feeTracker.totalFeesCollected < DustThreshold)
                    <=> (outcome'[1] = "dust")
    ]_vars

\* a failure counted before the reset was seen by getState; the epoch
\* after the reset met the balance guard and counts as the first failure
C37_Witness ==
  /\ Len(snapshots) >= 1
  /\ ~snapshots[1].modified
  /\ snapshots[1].executor.value.consecutiveFailures = 1
  /\ snapshots[1].executor.value.epochNumber = 1
  /\ executorState.epochNumber = 2
  /\ executorState.consecutiveFailures = 1
  /\ ~executorState.circuitBreakerActive
  /\ outcome[1] = "lowbal"

(* C38: in every EpochReport built for an epoch that performed an         *)
(* allocation, feesDetected equals the fee amount that epoch allocated:   *)
(* the allocation's totalFeesToAllocate, the sum of the report's four     *)
(* allocation amounts.                                                    *)
C38_ReportedFeesMatch ==
  \A p \in Procs :
    (pc[p] = "report" /\ outcome[p] = "settled")
    => LET report == EpochReport(p)
           a == report.allocations
       IN /\ report.feesDetected = allocation[p].totalFeesToAllocate
          /\ a.buyback + a.lp + a.burn + a.cooling
               = report.feesDetected * 100 * AmountUnit(allocationConfig)

C40_MoreAggressiveWhenLower ==
  (/\ strategyInput.allocationMode = "adaptive"
   /\ Len(strategyResult) = 2
   /\ HealthOfCall(1) <= HealthOfCall(2))
  => /\ AdaptiveBuybackPct(HealthOfCall(1), strategyInput.config)
          >= AdaptiveBuybackPct(HealthOfCall(2), strategyInput.config)
     /\ strategyResult[1].allocations.buyback
          >= strategyResult[2].allocations.buyback

====
